---- MODULE Spec2Model ----
(***************************************************************************)
(* A model of bitstore.py: bit-addressable buffers over in-memory byte     *)
(* storage (ConstByteArray / ByteArray) or over a file (FileArray), with   *)
(* slice, offsetcopy, appendarray, prependarray and equal.                 *)
(*                                                                         *)
(* A buffer is a record                                                    *)
(*   kind        "mem" (ByteArray) or "file" (FileArray)                   *)
(*   sid         identity of the storage (the bytearray object / the file) *)
(*   data        the bytes of that storage (the whole bytearray / file)    *)
(*   offset      the offset slot                                           *)
(*   bitlength   the bitlength slot                                        *)
(*   fbyteoffset, fbytelength   the byteoffset / bytelength slots of a     *)
(*               FileArray (0 for "mem", where they are properties)        *)
(* Python exceptions are results: every operation that can raise returns   *)
(* the exception's name in an err field (or as the value, for equal).      *)
(* Byte reads return a negative code when they raise.                      *)
(***************************************************************************)
EXTENDS Integers, Sequences, FiniteSets, TLC

VARIABLES heap, bufs, out, hist

vars == <<heap, bufs, out, hist>>

\* ------------------------------------------------------------------ bounds
\* Largest bitlength of an input buffer of the pure-function specifications.
MaxBits == 11
\* Largest offset of an in-memory input buffer that is a slice view.
MaxOff == 9
\* Largest bitlength of an operand of appendarray / prependarray.
MaxJoinBits == 5
\* Largest number of buffers of the specification Spec.
MaxBufs == 3
\* Largest bitlength of a constructed buffer of the heap specifications.
MaxViewBits == 3
\* Largest number of joins in a run of Spec.
MaxSteps == 1
\* Largest number of mutations in a run of SpecAlias and SpecCopy.
MaxMuts == 2
\* Size in bytes of the file of the FileArray construction specification.
MaxFile == 3

\* Byte values the inputs are drawn from: 0x00, 0xFF, 0xB4 = 10110100 and
\* 0x5A = 01011010.
ByteVals == {0, 255, 180, 90}

\* ------------------------------------------------------------- bit helpers
Shl(x, k) == x * (2 ^ k)
Shr(x, k) == x \div (2 ^ k)

RECURSIVE BitAnd(_, _)
BitAnd(x, y) ==
    IF x = 0 \/ y = 0 THEN 0
    ELSE (x % 2) * (y % 2) + 2 * BitAnd(x \div 2, y \div 2)

RECURSIVE BitOr(_, _)
BitOr(x, y) ==
    IF x = 0 THEN y
    ELSE IF y = 0 THEN x
    ELSE (IF x % 2 = 1 \/ y % 2 = 1 THEN 1 ELSE 0) + 2 * BitOr(x \div 2, y \div 2)

RECURSIVE BitXor(_, _)
BitXor(x, y) ==
    IF x = 0 THEN y
    ELSE IF y = 0 THEN x
    ELSE ((x + y) % 2) + 2 * BitXor(x \div 2, y \div 2)

\* Error codes of a byte read, and the exceptions they stand for.
IndexErr == 0 - 1
TypeErr == 0 - 2
OSErr == 0 - 3
AssertErr == 0 - 4
IsErr(v) == v < 0
ErrName(v) ==
    IF v = IndexErr THEN "IndexError"
    ELSE IF v = TypeErr THEN "TypeError"
    ELSE IF v = AssertErr THEN "AssertionError"
    ELSE "OSError"
BoolStr(p) == IF p THEN "True" ELSE "False"

\* bytearray indexing d[i] (0-based, negative i counts from the end).
PyIndex(d, i) ==
    IF 0 <= i /\ i < Len(d) THEN d[i + 1]
    ELSE IF i < 0 /\ 0 - i <= Len(d) THEN d[Len(d) + i + 1]
    ELSE IndexErr

\* bytearray slicing d[lo:hi] for 0 <= lo (clamped to the length, never raises).
PySlice(d, lo, hi) ==
    LET l == IF lo > Len(d) THEN Len(d) ELSE lo
        h == IF hi > Len(d) THEN Len(d) ELSE hi
    IN  IF h <= l THEN <<>> ELSE SubSeq(d, l + 1, h)

\* ---------------------------------------------------------- ConstByteArray
ByteArray(sid, data, bitlength, offset) ==
    [kind |-> "mem", sid |-> sid, data |-> data, offset |-> offset,
     bitlength |-> bitlength, fbyteoffset |-> 0, fbytelength |-> 0]

byteoffset(s) ==
    IF s.kind = "mem" THEN s.offset \div 8 ELSE s.fbyteoffset

bytelength(s) ==
    IF s.kind = "file" THEN s.fbytelength
    ELSE IF s.bitlength = 0 THEN 0
    ELSE LET sb == s.offset \div 8
             eb == (s.offset + s.bitlength - 1) \div 8
         IN  IF eb = 0 - 1 THEN 1 ELSE eb - sb + 1

\* source.seek(pos); ord(source.read(1)) on the file's bytes.
FileRead(s, pos) ==
    IF pos < 0 THEN OSErr
    ELSE IF pos >= Len(s.data) THEN TypeErr
    ELSE s.data[pos + 1]

\* getbyte(pos) of either class.
getbyte(s, pos) ==
    IF s.kind = "mem" THEN PyIndex(s.data, pos + byteoffset(s))
    ELSE LET p == IF pos < 0 THEN pos + s.fbytelength ELSE pos
         IN  FileRead(s, p + s.fbyteoffset)

\* FileArray.__getitem__
FileGetItem(s, pos) == getbyte(s, pos + s.fbyteoffset)

\* getbit(pos) of either class: 1 / 0 for True / False, or an error code.
getbit(s, pos) ==
    IF ~(0 <= pos /\ pos < s.bitlength) THEN AssertErr
    ELSE LET byte == (s.offset + pos) \div 8
             bit == (s.offset + pos) % 8
             v == IF s.kind = "mem" THEN PyIndex(s.data, byte)
                  ELSE FileRead(s, byte + s.fbyteoffset)
         IN  IF IsErr(v) THEN v
             ELSE IF BitAnd(v, Shr(128, bit)) # 0 THEN 1 ELSE 0

\* getbyteslice(start, end) of either class, for 0 <= start.
getbyteslice(s, start, end) ==
    IF s.kind = "mem"
    THEN PySlice(s.data, start + byteoffset(s), end + byteoffset(s))
    ELSE IF start < end
         THEN PySlice(s.data, start + s.fbyteoffset, end + s.fbyteoffset)
         ELSE <<>>

\* rawbytes of either class.
rawbytes(s) ==
    IF s.kind = "mem" THEN s.data ELSE getbyteslice(s, 0, s.fbytelength)

\* __copy__ without the [:] of line 51: the new buffer over s's own storage.
copy_Shared(s, sid) == ByteArray(s.sid, rawbytes(s), s.bitlength, s.offset)

\* __copy__ of either class, into a new storage identified by sid.
copy(s, sid) == ByteArray(sid, rawbytes(s), s.bitlength, s.offset)

\* ------------------------------------------------------------------- equal
\* da[i] / db[i] inside equal and d[i] inside offsetcopy: the bytearray when
\* the _rawarray attribute was taken (raw), else the buffer object itself,
\* which only a FileArray can index.
Sub(raw, s, i) ==
    IF raw THEN PyIndex(s.data, i)
    ELSE IF s.kind = "file" THEN FileGetItem(s, i)
    ELSE TypeErr

\* The first error among the reads vs (in evaluation order), else 0.
RECURSIVE FirstErr(_)
FirstErr(vs) ==
    IF vs = <<>> THEN 0
    ELSE IF IsErr(Head(vs)) THEN Head(vs)
    ELSE FirstErr(Tail(vs))

\* The result of a step that reads vs and then returns p.
Ret(vs, p) == IF FirstErr(vs) # 0 THEN ErrName(FirstErr(vs)) ELSE BoolStr(p)

\* ((d << bitoff) & 0xff) >> (8 - bitlength)
OneByteVal(v, bitoff, bitlength) == Shr(BitAnd(Shl(v, bitoff), 255), 8 - bitlength)

\* Lines 298-300: the bytes between the first and the last, aligned case.
\* "" when the loop ends without returning.
RECURSIVE AlignedLoop(_, _, _, _, _, _)
AlignedLoop(raw, a, b, x, last, b_a_offset) ==
    IF x >= last THEN ""
    ELSE LET va == Sub(raw, a, x)
             vb == Sub(raw, b, b_a_offset + x)
         IN  IF FirstErr(<<va, vb>>) # 0 THEN ErrName(FirstErr(<<va, vb>>))
             ELSE IF va # vb THEN "False"
             ELSE AlignedLoop(raw, a, b, x + 1, last, b_a_offset)

\* Lines 329-337: every full byte of b against bits from 2 bytes of a.
RECURSIVE ShiftedLoop(_, _, _, _, _, _)
ShiftedLoop(raw, a, b, x, last, shift) ==
    IF x >= last THEN ""
    ELSE LET vb == Sub(raw, b, byteoffset(b) + x)
             v1 == Sub(raw, a, byteoffset(a) + x - 1)
             v2 == Sub(raw, a, byteoffset(a) + x)
             a_val == BitAnd(Shr(Shl(v1, 8) + v2, shift), 255)
         IN  IF FirstErr(<<vb, v1, v2>>) # 0 THEN ErrName(FirstErr(<<vb, v1, v2>>))
             ELSE IF a_val # vb THEN "False"
             ELSE ShiftedLoop(raw, a, b, x + 1, last, shift)

\* FinalBits without lines 341-342 and 345-346 (0 left as 0, not made 8).
FinalBits_NoWrap(s) == (s.offset + s.bitlength) % 8

\* Lines 340-346: the number of bits in the final byte, 8 when it is full.
FinalBits(s) ==
    IF (s.offset + s.bitlength) % 8 = 0 THEN 8 ELSE (s.offset + s.bitlength) % 8

\* Lines 284-304: a and b have the same bit offset within their bytes.
EqualAligned(raw, a, b) ==
    LET a_bitoff == a.offset % 8
        b_bitoff == b.offset % 8
        a_bo == byteoffset(a)
        b_bo == byteoffset(b)
        a_bl == bytelength(a)
        b_bl == bytelength(b)
        spare0 == 8 - ((a_bitoff + a.bitlength) % 8)
        spare == IF spare0 = 8 THEN 0 ELSE spare0
        fa == Sub(raw, a, a_bo)
        fb == Sub(raw, b, b_bo)
        la == Sub(raw, a, a_bo + a_bl - 1)
        lb == Sub(raw, b, b_bo + b_bl - 1)
        mid == AlignedLoop(raw, a, b, 1 + a_bo, a_bo + a_bl - 1, b_bo - a_bo)
    IN  IF a_bl = 1
        THEN Ret(<<fa, fb>>, OneByteVal(fa, a_bitoff, a.bitlength)
                             = OneByteVal(fb, b_bitoff, b.bitlength))
        ELSE IF FirstErr(<<fa, fb>>) # 0 THEN ErrName(FirstErr(<<fa, fb>>))
        ELSE IF BitAnd(fa, Shr(255, a_bitoff)) # BitAnd(fb, Shr(255, b_bitoff))
             THEN "False"
        ELSE IF mid # "" THEN mid
        ELSE Ret(<<la, lb>>, Shr(la, spare) = Shr(lb, spare))

\* Lines 306-357: b's bit offset within its byte is the larger one.
EqualShifted(raw, a, b) ==
    LET a_bitoff == a.offset % 8
        b_bitoff == b.offset % 8
        a_bo == byteoffset(a)
        b_bo == byteoffset(b)
        a_bl == bytelength(a)
        b_bl == bytelength(b)
        shift == b_bitoff - a_bitoff
        fa == Sub(raw, a, a_bo)
        fb == Sub(raw, b, b_bo)
        fb1 == Sub(raw, b, b_bo + 1)
        b16 == Shr(BitAnd(Shl(Shl(fb, 8) + fb1, b_bitoff), 65535), 16 - b.bitlength)
        mid == ShiftedLoop(raw, a, b, 1, b_bl - 1, shift)
        final_b_bits == FinalBits(b)
        final_a_bits == FinalBits(a)
        lb == Sub(raw, b, b_bo + b_bl - 1)
        la == Sub(raw, a, a_bo + a_bl - 1)
        la2 == Sub(raw, a, a_bo + a_bl - 2)
        b_val == Shr(lb, 8 - final_b_bits)
        mask == Shr(255, 8 - final_b_bits)
    IN  IF b_bl = 1
        THEN IF a_bl # 1 THEN "AssertionError"
             ELSE Ret(<<fa, fb>>, OneByteVal(fa, a_bitoff, a.bitlength)
                                  = OneByteVal(fb, b_bitoff, b.bitlength))
        ELSE IF a_bl = 1
        THEN IF b_bl # 2 THEN "AssertionError"
             ELSE Ret(<<fa, fb, fb1>>, OneByteVal(fa, a_bitoff, a.bitlength) = b16)
        ELSE IF FirstErr(<<fa, fb>>) # 0 THEN ErrName(FirstErr(<<fa, fb>>))
        ELSE IF Shr(BitAnd(fa, Shr(255, a_bitoff)), shift) # BitAnd(fb, Shr(255, b_bitoff))
             THEN "False"
        ELSE IF mid # "" THEN mid
        ELSE IF IsErr(lb) THEN ErrName(lb)
        ELSE IF b_bl > a_bl
        THEN IF b_bl # a_bl + 1 THEN "AssertionError"
             ELSE Ret(<<la>>, BitAnd(Shr(la, 8 - final_a_bits), mask) = b_val)
        ELSE IF a_bl # b_bl THEN "AssertionError"
        ELSE Ret(<<la2, la>>,
                 BitAnd(Shr(Shl(la2, 8) + la, 8 - final_a_bits), mask) = b_val)

\* Lines 263-282, after the swap: the choice of da and db and the identity
\* short cut. Two buffer objects over one bytearray have the same sid; two
\* distinct FileArray objects are never the same object.
EqualOrdered(a, b) ==
    LET raw == a.kind = "mem" /\ b.kind = "mem"
    IN  IF raw /\ a.sid = b.sid /\ a.offset = b.offset THEN "True"
        ELSE IF a.offset % 8 = b.offset % 8 THEN EqualAligned(raw, a, b)
        ELSE EqualShifted(raw, a, b)

\* equal(a, b): "True", "False" or the name of the exception raised.
equal(a, b) ==
    IF a.bitlength # b.bitlength THEN "False"
    ELSE IF a.bitlength = 0 THEN "True"
    ELSE IF (a.offset % 8) > (b.offset % 8) THEN EqualOrdered(b, a)
    ELSE EqualOrdered(a, b)

\* The comparison equal is specified by: same length and the same bit at
\* every position.
SameBits(a, b) ==
    /\ a.bitlength = b.bitlength
    /\ \A i \in 0 .. a.bitlength - 1 :
          /\ getbit(a, i) \in {0, 1}
          /\ getbit(a, i) = getbit(b, i)

\* ------------------------------------------------------------------- slice
\* FileArray.__init__ with line 167 storing offset instead of bitoffset.
FileArray_RawOffset(sid, data, bitlength, offset) ==
    LET bo == offset \div 8
        bitoffset == offset % 8
        bl == (bitlength + bitoffset + 7) \div 8
    IN  [kind |-> "file", sid |-> sid, data |-> data, offset |-> offset,
         bitlength |-> bitlength, fbyteoffset |-> bo, fbytelength |-> bl,
         err |-> IF bl > Len(data) - bo THEN "CreationError" ELSE ""]

\* FileArray(source, bitlength, offset) for an integer bitlength; the None
\* case is FileArrayRest. err is "" or the exception raised.
FileArray(sid, data, bitlength, offset) ==
    LET bo == offset \div 8
        bitoffset == offset % 8
        bl == (bitlength + bitoffset + 7) \div 8
    IN  [kind |-> "file", sid |-> sid, data |-> data, offset |-> bitoffset,
         bitlength |-> bitlength, fbyteoffset |-> bo, fbytelength |-> bl,
         err |-> IF bl > Len(data) - bo THEN "CreationError" ELSE ""]

\* FileArray(source, None, offset)
FileArrayRest(sid, data, offset) ==
    LET bo == offset \div 8
        bitoffset == offset % 8
        bl == Len(data) - bo
    IN  [kind |-> "file", sid |-> sid, data |-> data, offset |-> bitoffset,
         bitlength |-> bl * 8 - bitoffset, fbyteoffset |-> bo, fbytelength |-> bl,
         err |-> IF bl > Len(data) - bo THEN "CreationError" ELSE ""]

\* slice with line 207 passing ba._rawarray[:], a copy of the storage.
slice_Detached(ba, bitlength, offset) ==
    IF ba.kind = "mem"
    THEN ByteArray(ba.sid + 1, ba.data, bitlength, ba.offset + offset) @@ [err |-> ""]
    ELSE FileArray(ba.sid, ba.data, bitlength,
                   8 * ba.fbyteoffset + ba.offset + offset)

\* slice(ba, bitlength, offset): a view over the same storage. The result
\* has an err field: "" or the exception raised.
slice(ba, bitlength, offset) ==
    IF ba.kind = "mem"
    THEN ByteArray(ba.sid, ba.data, bitlength, ba.offset + offset) @@ [err |-> ""]
    ELSE FileArray(ba.sid, ba.data, bitlength,
                   8 * ba.fbyteoffset + ba.offset + offset)

\* -------------------------------------------------------------- offsetcopy
\* One byte of newdata made of the reads v1 and v2: an error code if a read
\* raised, else the byte.
Join2(v1, v2, val) == IF IsErr(v1) THEN v1 ELSE IF IsErr(v2) THEN v2 ELSE val

\* d[x] in offsetcopy: s._rawarray[x], or s[x] for a FileArray.
OcSub(s, x) == Sub(s.kind = "mem", s, x)

\* Lines 231-233: the bytes for x in range(x, last), shifting left.
RECURSIVE LeftLoop(_, _, _, _)
LeftLoop(s, x, last, shiftleft) ==
    IF x >= last THEN <<>>
    ELSE LET v1 == OcSub(s, x)
             v2 == OcSub(s, x + 1)
         IN  <<Join2(v1, v2, BitAnd(Shl(v1, shiftleft), 255) + Shr(v2, 8 - shiftleft))>>
             \o LeftLoop(s, x + 1, last, shiftleft)

\* Lines 242-244: the bytes for x in range(x, last), shifting right.
RECURSIVE RightLoop(_, _, _, _)
RightLoop(s, x, last, shiftright) ==
    IF x >= last THEN <<>>
    ELSE LET v1 == OcSub(s, x - 1)
             v2 == OcSub(s, x)
         IN  <<Join2(v1, v2, BitAnd(Shl(v1, 8 - shiftright), 255) + Shr(v2, shiftright))>>
             \o RightLoop(s, x + 1, last, shiftright)

\* Lines 227-238: newoffset < s.offset % 8.
ShiftLeftData(s, newoffset) ==
    LET shiftleft == (s.offset % 8) - newoffset
        bo == byteoffset(s)
        bl == bytelength(s)
        lastv == OcSub(s, bo + bl - 1)
    IN  LeftLoop(s, bo, bo + bl - 1, shiftleft)
        \o (IF FinalBits(s) > shiftleft
            THEN <<Join2(lastv, 0, BitAnd(Shl(lastv, shiftleft), 255))>>
            ELSE <<>>)

\* Lines 239-249: newoffset > s.offset % 8.
ShiftRightData(s, newoffset) ==
    LET shiftright == newoffset - (s.offset % 8)
        bo == byteoffset(s)
        bl == bytelength(s)
        firstv == getbyte(s, 0)
        lastv == OcSub(s, bo + bl - 1)
    IN  <<Join2(firstv, 0, Shr(firstv, shiftright))>>
        \o RightLoop(s, 1, bl, shiftright)
        \o (IF FinalBits(s) + shiftright > 8
            THEN <<Join2(lastv, 0, BitAnd(Shl(lastv, 8 - shiftright), 255))>>
            ELSE <<>>)

\* A buffer together with "no exception".
Ok(buf) == buf @@ [err |-> ""]

\* No buffer: the exception raised.
Raised(name) ==
    [kind |-> "mem", sid |-> 0, data |-> <<>>, offset |-> 0, bitlength |-> 0,
     fbyteoffset |-> 0, fbytelength |-> 0, err |-> name]

\* offsetcopy(s, newoffset): a new ByteArray over a new storage sid, with an
\* err field: "" or the exception raised.
offsetcopy(s, newoffset, sid) ==
    IF ~(0 <= newoffset /\ newoffset < 8) THEN Raised("AssertionError")
    ELSE IF s.bitlength = 0 THEN Ok(copy(s, sid))
    ELSE IF newoffset = s.offset % 8
    THEN Ok(ByteArray(sid, getbyteslice(s, 0, bytelength(s)), s.bitlength, newoffset))
    ELSE LET newdata == IF newoffset < s.offset % 8
                        THEN ShiftLeftData(s, newoffset)
                        ELSE ShiftRightData(s, newoffset)
         IN  IF FirstErr(newdata) # 0 THEN Raised(ErrName(FirstErr(newdata)))
             ELSE Ok(ByteArray(sid, newdata, s.bitlength, newoffset))

\* --------------------------------------------------------------- ByteArray
\* The mutators return the receiver as it is left, with an err field.
\* x & (255 ^ (255 >> n)): the high n bits of x.
HighBits(x, n) == BitAnd(x, BitXor(255, Shr(255, n)))
\* x & (255 >> n): the low 8 - n bits of x.
LowBits(x, n) == BitAnd(x, Shr(255, n))

\* The storage d with d[i] = value, for an index i (negative from the end)
\* that PyIndex accepts.
PyStore(d, i, value) ==
    [d EXCEPT ![IF i < 0 THEN Len(d) + i + 1 ELSE i + 1] = value]

\* setbit / unsetbit / invertbit (which is "set", "unset" or "invert").
pointmutate(which, s, pos) ==
    IF ~(0 <= pos /\ pos < s.bitlength) THEN s @@ [err |-> "AssertionError"]
    ELSE LET byte == (s.offset + pos) \div 8
             bit == (s.offset + pos) % 8
             mask == Shr(128, bit)
             v == PyIndex(s.data, byte)
             nv == IF which = "set" THEN BitOr(v, mask)
                   ELSE IF which = "unset" THEN BitAnd(v, BitXor(255, mask))
                   ELSE BitXor(v, mask)
         IN  IF IsErr(v) THEN s @@ [err |-> ErrName(v)]
             ELSE Ok([s EXCEPT !.data = PyStore(s.data, byte, nv)])

setbit(s, pos) == pointmutate("set", s, pos)
unsetbit(s, pos) == pointmutate("unset", s, pos)
invertbit(s, pos) == pointmutate("invert", s, pos)

\* setbyte(pos, value)
setbyte(s, pos, value) ==
    LET i == pos + byteoffset(s)
    IN  IF IsErr(PyIndex(s.data, i)) THEN s @@ [err |-> "IndexError"]
        ELSE Ok([s EXCEPT !.data = PyStore(s.data, i, value)])

\* setbyteslice(start, end, value) for 0 <= start: a slice assignment, which
\* never raises and may change the storage's length.
setbyteslice(s, start, end, value) ==
    LET n == Len(s.data)
        lo0 == start + byteoffset(s)
        hi0 == end + byteoffset(s)
        lo == IF lo0 > n THEN n ELSE lo0
        hi1 == IF hi0 > n THEN n ELSE hi0
        hi == IF hi1 < lo THEN lo ELSE hi1
    IN  Ok([s EXCEPT !.data = SubSeq(s.data, 1, lo) \o value \o SubSeq(s.data, hi + 1, n)])

\* appendarray(array); tmp is the identity of offsetcopy's new storage.
appendarray(self, array, tmp) ==
    IF array.bitlength = 0 THEN Ok(self)
    ELSE LET arr == offsetcopy(array, (self.offset + self.bitlength) % 8, tmp)
             n == Len(self.data)
             popped == SubSeq(self.data, 1, n - 1)
             g == getbyte(arr, 0)
             joinval == BitOr(HighBits(self.data[n], arr.offset), LowBits(g, arr.offset))
         IN  IF arr.err # "" THEN self @@ [err |-> arr.err]
             ELSE IF arr.offset # 0
             THEN IF n = 0 THEN self @@ [err |-> "IndexError"]
                  ELSE IF IsErr(g) THEN [self EXCEPT !.data = popped] @@ [err |-> ErrName(g)]
                  ELSE Ok([self EXCEPT
                             !.data = popped \o <<joinval>> \o PySlice(arr.data, 1, Len(arr.data)),
                             !.bitlength = self.bitlength + arr.bitlength])
             ELSE Ok([self EXCEPT !.data = self.data \o arr.data,
                                  !.bitlength = self.bitlength + arr.bitlength])

\* prependarray(array); the receiver adopts offsetcopy's new storage tmp.
prependarray(self, array, tmp) ==
    IF array.bitlength = 0 THEN Ok(self)
    ELSE LET arr == offsetcopy(array, (self.offset - array.bitlength) % 8, tmp)
             last == getbyte(arr, 0 - 1)
             first == PyIndex(self.data, 0)
             joinval == BitOr(HighBits(last, self.offset), LowBits(first, self.offset))
             joined == PyStore(arr.data, 0 - 1, joinval)
         IN  IF arr.err # "" THEN self @@ [err |-> arr.err]
             ELSE IF (arr.offset + arr.bitlength) % 8 # self.offset
             THEN self @@ [err |-> "AssertionError"]
             ELSE IF self.offset # 0
             THEN IF IsErr(last) THEN self @@ [err |-> ErrName(last)]
                  ELSE IF IsErr(first) THEN self @@ [err |-> ErrName(first)]
                  ELSE Ok([self EXCEPT
                             !.sid = tmp,
                             !.data = joined \o PySlice(self.data, 1, bytelength(self)),
                             !.offset = arr.offset,
                             !.bitlength = self.bitlength + arr.bitlength])
             ELSE Ok([self EXCEPT
                        !.sid = tmp,
                        !.data = arr.data \o PySlice(self.data, 0, bytelength(self)),
                        !.offset = arr.offset,
                        !.bitlength = self.bitlength + arr.bitlength])

\* ------------------------------------------------------------------ state
\* A buffer of the state names its storage; Val gives it the storage's bytes.
Ref(s) ==
    [kind |-> s.kind, sid |-> s.sid, offset |-> s.offset,
     bitlength |-> s.bitlength, fbyteoffset |-> s.fbyteoffset,
     fbytelength |-> s.fbytelength]

Val(h, r) ==
    [kind |-> r.kind, sid |-> r.sid, data |-> h[r.sid], offset |-> r.offset,
     bitlength |-> r.bitlength, fbyteoffset |-> r.fbyteoffset,
     fbytelength |-> r.fbytelength]

\* All byte sequences of length n over ByteVals.
Bytes(n) == [1 .. n -> ByteVals]

\* All byte sequences of length n over 0xB4 and 0x5A.
JoinBytes(n) == [1 .. n -> {180, 90}]

Min(x, y) == IF x < y THEN x ELSE y

\* Bytes needed by bitlength bits starting offset bits into a storage.
NBytes(offset, bitlength) == (offset + bitlength + 7) \div 8

\* ---------------------------------------------------- specification SpecEq
\* equal on two in-memory buffers over separate storages, every bit offset
\* in [0,8) and every bitlength up to MaxBits.
InitEq ==
    \E oa \in 0 .. 7, ob \in 0 .. 7, L \in 0 .. MaxBits :
      \E da \in Bytes(NBytes(oa, L)), db \in Bytes(NBytes(ob, L)) :
        /\ heap = <<da, db>>
        /\ bufs = <<Ref(ByteArray(1, da, L, oa)), Ref(ByteArray(2, db, L, ob))>>
        /\ out = [op |-> "init"]
        /\ hist = <<>>

\* equal(a, b), equal(b, a) and equal(a, a).
Equal ==
    /\ out.op = "init"
    /\ LET a == Val(heap, bufs[1])
           b == Val(heap, bufs[2])
       IN  out' = [op |-> "equal", x |-> a, y |-> b,
                   ab |-> equal(a, b), ba |-> equal(b, a), aa |-> equal(a, a)]
    /\ UNCHANGED <<heap, bufs, hist>>

\* equal on the views slice(a, n-1, 1) and slice(b, n-1, 1), whose offsets
\* reach 8, and on a against the shorter slice(b, n-1, 1).
EqualTails ==
    /\ out.op = "init"
    /\ bufs[1].bitlength > 0
    /\ LET a == Val(heap, bufs[1])
           b == Val(heap, bufs[2])
           ta == slice(a, a.bitlength - 1, 1)
           tb == slice(b, b.bitlength - 1, 1)
       IN  out' = [op |-> "equaltails", x |-> ta, y |-> tb,
                   ab |-> equal(ta, tb), ba |-> equal(tb, ta),
                   aa |-> equal(a, tb)]
    /\ UNCHANGED <<heap, bufs, hist>>

NextEq == Equal \/ EqualTails

SpecEq == InitEq /\ [][NextEq]_vars

\* C4: on in-memory buffers equal returns True exactly when the bitlengths
\* are the same and every bit position holds the same bit, whichever operand
\* comes first and whatever the storage holds outside the two regions; a
\* buffer equals itself, and buffers of different bitlength are never equal.
C4_EqualIsBitwise ==
    /\ out.op \in {"equal", "equaltails"} =>
         /\ out.ab = BoolStr(SameBits(out.x, out.y))
         /\ out.ba = out.ab
    /\ out.op = "equal" => out.aa = "True"
    /\ out.op = "equaltails" => out.aa = "False"

\* equal answered True for two buffers at different offsets whose regions
\* span three bytes of different storages that differ outside the regions.
C4_Witness ==
    /\ out.op = "equal"
    /\ out.ab = "True"
    /\ out.x.offset # out.y.offset
    /\ bytelength(out.x) = 3
    /\ bytelength(out.y) = 3
    /\ out.x.data[1] # out.y.data[1]
    /\ out.x.data[3] # out.y.data[3]
    /\ \E i, j \in 0..(out.x.bitlength - 1) : getbit(out.x, i) # getbit(out.x, j)

\* --------------------------------------------------- specification SpecOff
\* offsetcopy on one buffer of any variant: in-memory with offset in [0,8),
\* in-memory slice view with offset >= 8, file-backed at any byte offset.
InitOffMem ==
    \E o \in 0 .. MaxOff, L \in 0 .. MaxBits :
      \E d \in Bytes(NBytes(o, L)) :
        /\ heap = <<d>>
        /\ bufs = <<Ref(ByteArray(1, d, L, o))>>

InitOffFile ==
    \E n \in 0 .. MaxFile :
      \E d \in Bytes(n), o \in 0 .. 8 * n :
        \E L \in 0 .. Min(MaxBits, 8 * n - o) :
          /\ heap = <<d>>
          /\ bufs = <<Ref(FileArray(1, d, L, o))>>

InitOff ==
    /\ InitOffMem \/ InitOffFile
    /\ out = [op |-> "init"]
    /\ hist = <<>>

\* r = offsetcopy(x, n)
OffsetCopy(n) ==
    /\ out.op = "init"
    /\ LET x == Val(heap, bufs[1])
       IN  out' = [op |-> "offsetcopy", x |-> x, n |-> n, r |-> offsetcopy(x, n, 2)]
    /\ UNCHANGED <<heap, bufs, hist>>

\* r = offsetcopy(offsetcopy(x, n0), x.offset % 8)
RoundTrip(n0) ==
    /\ out.op = "init"
    /\ LET x == Val(heap, bufs[1])
           y == offsetcopy(x, n0, 2)
       IN  out' = [op |-> "roundtrip", x |-> x, n |-> n0,
                   r |-> IF y.err # "" THEN y ELSE offsetcopy(y, x.offset % 8, 3)]
    /\ UNCHANGED <<heap, bufs, hist>>

NextOff == \E n \in 0 .. 7 : OffsetCopy(n) \/ RoundTrip(n)

SpecOff == InitOff /\ [][NextOff]_vars

\* C3: offsetcopy(x, n) returns a buffer with x's bitlength and x's bit at
\* every position, for every variant of x and every n in [0,8), and so does
\* the round trip through any intermediate offset.
C3_OffsetcopyKeepsBits ==
    out.op \in {"offsetcopy", "roundtrip"} =>
        /\ out.r.err = ""
        /\ SameBits(out.r, out.x)

\* -------------------------------------------------- specification SpecJoin
\* c = copy(a); c.appendarray(b) and c = copy(b); c.prependarray(a), for a
\* and b in-memory buffers at any offset, a also a view over a storage that
\* holds a byte beyond its region.
InitJoin ==
    \E oa \in 0 .. MaxOff, ob \in 0 .. MaxOff,
       La \in 0 .. MaxJoinBits, Lb \in 0 .. MaxJoinBits, extra \in 0 .. 1 :
      \E da \in JoinBytes(NBytes(oa, La) + extra), db \in JoinBytes(NBytes(ob, Lb)) :
        /\ heap = <<da, db>>
        /\ bufs = <<Ref(ByteArray(1, da, La, oa)), Ref(ByteArray(2, db, Lb, ob))>>
        /\ out = [op |-> "init"]
        /\ hist = <<>>

\* c = copy(a); c.appendarray(b)
CopyAppend ==
    /\ out.op = "init"
    /\ LET a == Val(heap, bufs[1])
           b == Val(heap, bufs[2])
       IN  out' = [op |-> "append", a |-> a, b |-> b,
                   c |-> appendarray(copy(a, 3), b, 4)]
    /\ UNCHANGED <<heap, bufs, hist>>

\* c = copy(b); c.prependarray(a)
CopyPrepend ==
    /\ out.op = "init"
    /\ LET a == Val(heap, bufs[1])
           b == Val(heap, bufs[2])
       IN  out' = [op |-> "prepend", a |-> a, b |-> b,
                   c |-> prependarray(copy(b, 3), a, 4)]
    /\ UNCHANGED <<heap, bufs, hist>>

NextJoin == CopyAppend \/ CopyPrepend

SpecJoin == InitJoin /\ [][NextJoin]_vars

\* The joined buffer c holds a's bits and then b's bits: the operation
\* raised nothing, the bitlengths add up, and the two slices of c compare
\* equal (under equal) to a and to b.
Joined(c, a, b) ==
    /\ c.err = ""
    /\ c.bitlength = a.bitlength + b.bitlength
    /\ equal(slice(c, a.bitlength, 0), a) = "True"
    /\ equal(slice(c, b.bitlength, a.bitlength), b) = "True"

\* C1: after c = copy(a); c.appendarray(b), c is a followed by b.
C1_AppendJoins == out.op = "append" => Joined(out.c, out.a, out.b)

\* C2: after c = copy(b); c.prependarray(a), no assertion failed and c is a
\* followed by b.
C2_PrependJoins == out.op = "prepend" => Joined(out.c, out.a, out.b)

\* ------------------------------------------------ specification SpecFileEq
\* equal on a FileArray and a ByteArray over the same bytes and the same
\* non-empty bit window.
InitFileEq ==
    \E n \in 1 .. MaxFile :
      \E d \in Bytes(n), o \in 0 .. 8 * n - 1 :
        \E L \in 1 .. Min(MaxBits, 8 * n - o) :
          /\ heap = <<d, d>>
          /\ bufs = <<Ref(FileArray(1, d, L, o)), Ref(ByteArray(2, d, L, o))>>
          /\ out = [op |-> "init"]
          /\ hist = <<>>

\* equal(fileBuf, memBuf) and equal(memBuf, fileBuf)
EqualFileMem ==
    /\ out.op = "init"
    /\ LET f == Val(heap, bufs[1])
           m == Val(heap, bufs[2])
       IN  out' = [op |-> "equalfilemem", fm |-> equal(f, m), mf |-> equal(m, f)]
    /\ UNCHANGED <<heap, bufs, hist>>

\* The same against the in-memory buffer copy(fileBuf) materializes.
EqualFileCopy ==
    /\ out.op = "init"
    /\ LET f == Val(heap, bufs[1])
           m == copy(f, 3)
       IN  out' = [op |-> "equalfilecopy", fm |-> equal(f, m), mf |-> equal(m, f)]
    /\ UNCHANGED <<heap, bufs, hist>>

NextFileEq == EqualFileMem \/ EqualFileCopy

SpecFileEq == InitFileEq /\ [][NextFileEq]_vars

\* C5: a file-backed buffer and an in-memory buffer over the same bytes and
\* the same window compare equal, in either order.
C5_FileEqualsMem ==
    out.op \in {"equalfilemem", "equalfilecopy"} =>
        /\ out.fm = "True"
        /\ out.mf = "True"

\* -------------------------------------------------- specification SpecFile
\* FileArray construction over a file of 0 .. MaxFile bytes.
InitFile ==
    \E n \in 0 .. MaxFile :
        /\ heap = <<[i \in 1 .. n |-> 0]>>
        /\ bufs = <<>>
        /\ out = [op |-> "init"]
        /\ hist = <<>>

\* FileArray(source, bitlength, offset)
Create(bitlength, offset) ==
    /\ out' = [op |-> "create", bitlength |-> bitlength, offset |-> offset,
               r |-> FileArray(1, heap[1], bitlength, offset)]
    /\ UNCHANGED <<heap, bufs, hist>>

\* FileArray(source, None, offset)
CreateRest(offset) ==
    /\ out' = [op |-> "createrest", bitlength |-> 0, offset |-> offset,
               r |-> FileArrayRest(1, heap[1], offset)]
    /\ UNCHANGED <<heap, bufs, hist>>

NextFile ==
    \E offset \in 0 .. 8 * MaxFile + 8 :
        \/ \E bitlength \in 0 .. 8 * MaxFile + 8 : Create(bitlength, offset)
        \/ CreateRest(offset)

SpecFile == InitFile /\ [][NextFile]_vars

\* C7: construction raises CreationError when the requested window exceeds
\* the file, with bitlength given or None, and a construction that succeeds
\* has bitlength >= 0 and a window inside the file.
C7_WindowChecked ==
    LET size == Len(heap[1])
        r == out.r
    IN  /\ (/\ out.op = "create"
            /\ out.bitlength > (size - (out.offset \div 8)) * 8 - (out.offset % 8))
           => r.err = "CreationError"
        /\ (out.op = "createrest" /\ out.offset >= 8 * size)
           => r.err = "CreationError"
        /\ (out.op \in {"create", "createrest"} /\ r.err = "")
           => /\ r.bitlength >= 0
              /\ 8 * r.fbyteoffset + r.offset + r.bitlength <= 8 * size

\* ------------------------------------------------------ the heap of buffers
\* heap[sid] is the bytearray (or the file's bytes) with identity sid; bufs
\* are the buffer objects of the program, each naming its storage; out is
\* the last operation: its name, the index i of the buffer it was called
\* on, its arguments k and n, the index r of the buffer it returned (0 for
\* none) and the exception it raised; hist is what the calling program
\* keeps of its own run.
NewSid == Len(heap) + 1

\* The heap with the bytes data under sid (a new storage when sid is new).
Store(h, sid, data) ==
    IF sid = Len(h) + 1 THEN h \o <<data>> ELSE [h EXCEPT ![sid] = data]

Done(op, i, k, n, r, err) ==
    [op |-> op, i |-> i, k |-> k, n |-> n, r |-> r, err |-> err]

Out0 == Done("construct", 0, 0, 0, 1, "")

\* The first buffer: ByteArray(bytearray(d), L, o) with its region inside
\* d, or FileArray(source, L, o) that raised nothing; d is one byte longer
\* than the region needs and holds bytes of vals.
InitHeap(vals, kinds) ==
    \E o \in 0 .. 7, L \in 0 .. MaxViewBits :
      \E d \in [1 .. NBytes(o, L) + 1 -> vals] :
        /\ heap = <<d>>
        /\ \/ "mem" \in kinds /\ bufs = <<Ref(ByteArray(1, d, L, o))>>
           \/ "file" \in kinds /\ bufs = <<Ref(FileArray(1, d, L, o))>>
        /\ out = Out0

\* ByteArray(bytearray([0xB4]), L, o)
Construct(L, o) ==
    /\ bufs' = bufs \o <<Ref(ByteArray(NewSid, <<180>>, L, o))>>
    /\ heap' = Store(heap, NewSid, <<180>>)
    /\ out' = Done("construct", 0, o, L, Len(bufs) + 1, "")

\* bufs[r] = slice(bufs[i], n, k)
Slice(i, n, k) ==
    LET v == slice(Val(heap, bufs[i]), n, k)
    IN  /\ bufs' = IF v.err = "" THEN bufs \o <<Ref(v)>> ELSE bufs
        /\ heap' = IF v.err = "" THEN Store(heap, v.sid, v.data) ELSE heap
        /\ out' = Done("slice", i, k, n, IF v.err = "" THEN Len(bufs) + 1 ELSE 0, v.err)

\* bufs[r] = copy.copy(bufs[i])
Copy(i) ==
    LET c == copy(Val(heap, bufs[i]), NewSid)
    IN  /\ bufs' = bufs \o <<Ref(c)>>
        /\ heap' = Store(heap, c.sid, c.data)
        /\ out' = Done("copy", i, 0, 0, Len(bufs) + 1, "")

\* bufs[r] = offsetcopy(bufs[i], n)
OffsetCopyOf(i, n) ==
    LET c == offsetcopy(Val(heap, bufs[i]), n, NewSid)
    IN  /\ bufs' = IF c.err = "" THEN bufs \o <<Ref(c)>> ELSE bufs
        /\ heap' = IF c.err = "" THEN Store(heap, c.sid, c.data) ELSE heap
        /\ out' = Done("offsetcopy", i, 0, n, IF c.err = "" THEN Len(bufs) + 1 ELSE 0, c.err)

\* The receiver bufs[i] and its storage as a mutator left them (r).
Mutated(op, i, k, n, r) ==
    /\ bufs[i].kind = "mem"
    /\ bufs' = [bufs EXCEPT ![i] = Ref(r)]
    /\ heap' = Store(heap, r.sid, r.data)
    /\ out' = Done(op, i, k, n, 0, r.err)

SetBit(i, pos) == Mutated("setbit", i, pos, 0, setbit(Val(heap, bufs[i]), pos))
UnsetBit(i, pos) == Mutated("unsetbit", i, pos, 0, unsetbit(Val(heap, bufs[i]), pos))
InvertBit(i, pos) == Mutated("invertbit", i, pos, 0, invertbit(Val(heap, bufs[i]), pos))
SetByte(i, pos, value) ==
    Mutated("setbyte", i, pos, value, setbyte(Val(heap, bufs[i]), pos, value))
SetByteSlice(i, start, end, value) ==
    Mutated("setbyteslice", i, start, end, setbyteslice(Val(heap, bufs[i]), start, end, value))

\* bufs[i].appendarray(bufs[j])
AppendArray(i, j) ==
    Mutated("appendarray", i, j, 0,
            appendarray(Val(heap, bufs[i]), Val(heap, bufs[j]), NewSid))

\* bufs[i].prependarray(bufs[j])
PrependArray(i, j) ==
    Mutated("prependarray", i, j, 0,
            prependarray(Val(heap, bufs[i]), Val(heap, bufs[j]), NewSid))

\* ------------------------------------------------------ specification Spec
\* Any sequence of construction, slice, copy, offsetcopy, appendarray and
\* prependarray that makes up to MaxBufs buffers and up to MaxSteps joins;
\* hist counts the joins.
Init == InitHeap({180}, {"mem", "file"}) /\ hist = 0

Creates ==
    /\ Len(bufs) < MaxBufs
    /\ \/ \E o \in 0 .. 7 : \E L \in {0, 8 - o} : Construct(L, o)
       \/ \E i \in DOMAIN bufs :
            \/ \E k \in 0 .. bufs[i].bitlength :
                 \E n \in 0 .. bufs[i].bitlength - k + 1 : Slice(i, n, k)
            \/ Copy(i)
            \/ \E n \in 0 .. 7 : OffsetCopyOf(i, n)
    /\ UNCHANGED hist

Joins ==
    /\ hist < MaxSteps
    /\ \E i \in DOMAIN bufs, j \in DOMAIN bufs :
         AppendArray(i, j) \/ PrependArray(i, j)
    /\ hist' = hist + 1

Next == Creates \/ Joins

Spec == Init /\ [][Next]_vars

\* C6 as stated: every buffer has its offset in [0,8).
C6_OffsetBelow8 ==
    \A b \in DOMAIN bufs : 0 <= bufs[b].offset /\ bufs[b].offset < 8

\* C6 as amended: no offset is negative; a FileArray, a constructed buffer,
\* the result of offsetcopy on a non-empty buffer and the receiver of a
\* prependarray of a non-empty array that raised nothing have their offset
\* in [0,8); an in-memory slice has the offset ba.offset + offset, and a copy
\* its source's offset.
C6_OffsetRange ==
    /\ \A b \in DOMAIN bufs :
         /\ 0 <= bufs[b].offset
         /\ bufs[b].kind = "file" => bufs[b].offset < 8
    /\ out.op = "construct" => bufs[out.r].offset < 8
    /\ (out.op = "offsetcopy" /\ out.r # 0 /\ bufs[out.i].bitlength > 0)
       => bufs[out.r].offset = out.n
    /\ (out.op = "prependarray" /\ out.err = "" /\ bufs[out.k].bitlength > 0)
       => bufs[out.i].offset < 8
    /\ (out.op = "slice" /\ out.r # 0 /\ bufs[out.i].kind = "mem")
       => bufs[out.r].offset = bufs[out.i].offset + out.k
    /\ out.op = "copy" => bufs[out.r].offset = bufs[out.i].offset

\* An offsetcopy of an in-memory slice view whose offset is 8 or more.
C6_Witness ==
    /\ out.op = "offsetcopy"
    /\ out.r # 0
    /\ bufs[out.i].offset >= 8
    /\ bufs[out.i].bitlength > 0

\* C10: slice called with offset + bitlength beyond the source's bitlength
\* raises and returns no buffer.
C10_SliceChecksRange ==
    (out.op = "slice" /\ out.k + out.n > bufs[out.i].bitlength)
    => (out.err # "" /\ out.r = 0)

\* ------------------------------------------------- specification SpecAlias
\* v = slice(x, n, k) of an in-memory x with k + n <= x.bitlength, then up
\* to MaxMuts point mutations through x (bufs[1]) or v (bufs[2]); hist
\* keeps the slice's arguments and counts the mutations.
InitAlias ==
    /\ InitHeap({180, 90}, {"mem"})
    /\ hist = [steps |-> 0, k |-> 0, n |-> 0]

AliasSlice ==
    /\ Len(bufs) = 1
    /\ \E k \in 0 .. bufs[1].bitlength :
         \E n \in 0 .. bufs[1].bitlength - k :
           /\ Slice(1, n, k)
           /\ hist' = [steps |-> 0, k |-> k, n |-> n]

AliasMutate ==
    /\ Len(bufs) = 2
    /\ hist.steps < MaxMuts
    /\ \E i \in DOMAIN bufs :
         \/ \E pos \in 0 .. bufs[i].bitlength :
              SetBit(i, pos) \/ UnsetBit(i, pos) \/ InvertBit(i, pos)
         \/ \E pos \in 0 - 1 .. 1, value \in {0, 255} : SetByte(i, pos, value)
    /\ hist' = [hist EXCEPT !.steps = @ + 1]

NextAlias == AliasSlice \/ AliasMutate

SpecAlias == InitAlias /\ [][NextAlias]_vars

\* C9: bit p of the slice v is bit k + p of x, before and after every point
\* mutation through x or through v; a bit set or cleared through one of the
\* two reads as set or cleared through the other.
C9_SliceAliases ==
    Len(bufs) = 2 =>
        LET x == Val(heap, bufs[1])
            v == Val(heap, bufs[2])
            pos == out.k
        IN  /\ v.bitlength = hist.n
            /\ \A p \in 0 .. hist.n - 1 :
                 /\ getbit(v, p) \in {0, 1}
                 /\ getbit(v, p) = getbit(x, hist.k + p)
            /\ (out.op \in {"setbit", "unsetbit"} /\ out.err = "")
               => LET bit == IF out.op = "setbit" THEN 1 ELSE 0
                  IN  /\ out.i = 2 => getbit(x, hist.k + pos) = bit
                      /\ (out.i = 1 /\ hist.k <= pos /\ pos < hist.k + hist.n)
                         => getbit(v, pos - hist.k) = bit

\* After MaxMuts mutations, the last a setbit through a slice v that starts
\* in the second byte of the storage, the bit reads 1 through x.
C9_Witness ==
    /\ Len(bufs) = 2
    /\ out.op = "setbit"
    /\ out.err = ""
    /\ out.i = 2
    /\ hist.k > 0
    /\ hist.steps = MaxMuts
    /\ bufs[2].offset >= 8
    /\ getbit(Val(heap, bufs[1]), hist.k + out.k) = 1

\* -------------------------------------------------- specification SpecCopy
\* A buffer (bufs[1], in memory or file-backed), possibly a slice of it over
\* the same storage, then c = copy(x) of one of them (c is the last buffer),
\* then up to MaxMuts mutations, all through c or all through the buffers
\* of x's side. hist keeps x's index (src), every buffer as it was right
\* after the copy (snap), the side that was mutated, and the number of
\* mutations.
InitCopy ==
    /\ InitHeap({180, 90}, {"mem", "file"})
    /\ hist = [steps |-> 0, side |-> "", src |-> 0, snap |-> <<>>]

CopyAlias ==
    /\ Len(bufs) = 1
    /\ \E k \in 0 .. bufs[1].bitlength : Slice(1, bufs[1].bitlength - k, k)
    /\ UNCHANGED hist

CopyCopy ==
    /\ hist.snap = <<>>
    /\ \E i \in DOMAIN bufs :
         /\ Copy(i)
         /\ hist' = [hist EXCEPT !.src = i,
                        !.snap = [b \in DOMAIN bufs' |-> Val(heap', bufs'[b])]]

CopyMutate ==
    /\ hist.snap # <<>>
    /\ hist.steps < MaxMuts
    /\ \E i \in DOMAIN bufs :
         LET side == IF i = Len(bufs) THEN "c" ELSE "x"
         IN  /\ hist.side \in {"", side}
             /\ \/ \E pos \in 0 .. bufs[i].bitlength - 1 :
                     SetBit(i, pos) \/ UnsetBit(i, pos) \/ InvertBit(i, pos)
                \/ \E pos \in 0 - 1 .. 0, value \in {0, 255} : SetByte(i, pos, value)
                \/ \E value \in {<<>>, <<15>>} : SetByteSlice(i, 0, 1, value)
                \/ \E j \in DOMAIN bufs : AppendArray(i, j) \/ PrependArray(i, j)
             /\ hist' = [hist EXCEPT !.steps = @ + 1, !.side = side]

NextCopy == CopyAlias \/ CopyCopy \/ CopyMutate

SpecCopy == InitCopy /\ [][NextCopy]_vars

\* C8: copy(x) is an in-memory buffer with x's bitlength and bits over a
\* storage no other buffer has; after mutations through c, x and every
\* buffer over x's storage are as they were (offset, bitlength and every
\* byte of storage), and after mutations through x's side c is as it was.
C8_CopyIndependent ==
    hist.snap # <<>> =>
        LET c == Len(hist.snap)
        IN  /\ hist.snap[c].kind = "mem"
            /\ SameBits(hist.snap[c], hist.snap[hist.src])
            /\ \A b \in 1 .. c - 1 : hist.snap[b].sid # hist.snap[c].sid
            /\ hist.side = "c" =>
                 \A b \in 1 .. c - 1 : Val(heap, bufs[b]) = hist.snap[b]
            /\ hist.side = "x" => Val(heap, bufs[c]) = hist.snap[c]

\* Two mutations through c changed c's bits, with x in memory and sliced.
C8_Witness ==
    /\ hist.snap # <<>>
    /\ Len(bufs) = 3
    /\ hist.side = "c"
    /\ hist.steps = MaxMuts
    /\ out.err = ""
    /\ bufs[3].bitlength = hist.snap[3].bitlength
    /\ ~SameBits(Val(heap, bufs[3]), hist.snap[3])

====
